---- MODULE Spec2Model ----
(***************************************************************************)
(* Model of pkg/compiler/compiler.go: the ModelCompiler.Compile pipeline   *)
(* that turns a model directory (manifest, VERSION marker, yang/ files)    *)
(* into generated bindings, a schema tree and five rendered templates.     *)
(*                                                                         *)
(* Conventions.  A Go string whose characters matter (the VERSION file,    *)
(* the binding file) is a sequence of one-character strings; other strings *)
(* are opaque TLA+ strings.  A pointer or an optional file is a sequence   *)
(* of length 0 (nil / absent) or 1 (<<value>>).  A file system path is the *)
(* sequence of its components below the model directory; a command-line   *)
(* argument is a sequence of the pieces it is formatted from.              *)
(***************************************************************************)
EXTENDS Integers, Sequences, FiniteSets, TLC

\* ------------------------------------------------------------------ bounds
MaxModules == 2
MaxVersionLen == 3
MaxContentLen == 2
MaxYangFiles == 2
MaxCalls == 2

\* --------------------------------------------------------- basic data types
CR == "\r"
LF == "\n"

Nil == <<>>
Ptr(x) == <<x>>
Deref(p) == p[1]

RECURSIVE SeqsUpTo(_, _)
SeqsUpTo(S, n) ==
    IF n = 0 THEN {<<>>}
    ELSE LET shorter == SeqsUpTo(S, n - 1)
         IN  shorter \cup {Append(s, x) : s \in {t \in shorter : Len(t) = n - 1}, x \in S}

IsPrefix(s, t) == Len(s) <= Len(t) /\ SubSeq(t, 1, Len(s)) = s

\* const block of compiler.go
versionFile == <<"VERSION">>
mainTemplate == "main.go.tpl"
pathsUtilsTemplate == "paths.go.tpl"
gomodTemplate == "go.mod.tpl"
makefileTemplate == "Makefile.tpl"
dockerfileTemplate == "Dockerfile.tpl"

\* filepath.Join on component sequences
Join(p, q) == p \o q

\* The string literal "1.0.0" of loadPluginVersion
DefaultVersion == <<"1", ".", "0", ".", "0">>

\* --------------------------------------------------------------- the inputs
ModelNames == {"foo", "bar"}

ModulePool ==
    { [Name |-> "a", Revision |-> "2020-01-01", Organization |-> "org", YangFile |-> "a.yang"],
      [Name |-> "b", Revision |-> "2021-02-02", Organization |-> "org", YangFile |-> "b.yang"] }

\* type MetaData (the manifest's typed record), zero value and loaded values
ZeroMetaData ==
    [Name |-> "", Version |-> "", GoPackage |-> "", LintModel |-> FALSE,
     GetStateMode |-> 0, Modules |-> <<>>]

Manifests ==
    { [Name |-> n, Version |-> "1.0.x", GoPackage |-> "pkg", LintModel |-> l,
       GetStateMode |-> 0, Modules |-> ms] :
         n \in ModelNames, l \in BOOLEAN, ms \in SeqsUpTo(ModulePool, MaxModules) }

\* The manifest file: absent/malformed (Nil) or parsable
ManifestFiles == {Nil} \cup {Ptr(m) : m \in Manifests}

VersionChars == {"2", ".", CR, LF}
ContentChars == {"p", "/", LF}

\* The VERSION file as the pipeline meets it: unreadable (Nil) or its bytes
VersionFiles == {Nil} \cup {Ptr(v) : v \in SeqsUpTo(VersionChars, MaxVersionLen)}
SampleVersion == Ptr(<<"2", ".", "3", CR, LF, "x">>)

\* The yang/ directory: unreadable (Nil) or the names ReadDir returns, in order
YangFileNames == {"a.yang", "b.yang", "c.yang"}
YangListings ==
    {Nil} \cup {Ptr(fs) : fs \in {s \in SeqsUpTo(YangFileNames, MaxYangFiles) :
                                    \A i, j \in 1..Len(s) : i # j => s[i] # s[j]}}
SampleListing == Ptr(<<"b.yang", "a.yang">>)

\* What the binding generator writes to its output file for this directory
GeneratedContents == SeqsUpTo(ContentChars, MaxContentLen)
SampleGenerated == <<"p", LF>>

SampleManifest ==
    Ptr([Name |-> "foo", Version |-> "1.0.x", GoPackage |-> "pkg", LintModel |-> TRUE,
         GetStateMode |-> 0,
         Modules |-> <<CHOOSE m \in ModulePool : m.Name = "a">>])
OtherManifest ==
    Ptr([Name |-> "bar", Version |-> "1.0.x", GoPackage |-> "pkg", LintModel |-> FALSE,
         GetStateMode |-> 0,
         Modules |-> <<CHOOSE m \in ModulePool : m.Name = "b",
                       CHOOSE m \in ModulePool : m.Name = "a">>])

ModelDir(m, v, y, g) == [manifest |-> m, version |-> v, yang |-> y, generated |-> g]

\* The model directories a single Compile call is checked on: every manifest
\* with every yang/ listing, every VERSION file, every generator output
ModelDirs ==
    {ModelDir(m, v, y, SampleGenerated) :
        m \in ManifestFiles, v \in {Nil, SampleVersion}, y \in YangListings}
    \cup {ModelDir(SampleManifest, v, SampleListing, SampleGenerated) : v \in VersionFiles}
    \cup {ModelDir(SampleManifest, SampleVersion, SampleListing, g) : g \in GeneratedContents}

\* The model directories a sequence of Compile calls is checked on
CallDirs ==
    {ModelDir(m, v, y, SampleGenerated) :
        m \in {Nil, SampleManifest, OtherManifest}, v \in {Nil, SampleVersion},
        y \in {Nil, SampleListing}}

\* ------------------------------------------------------- the program's types
\* type Dictionary, compiler.go
ZeroDictionary ==
    [Name |-> "", Version |-> "", PluginVersion |-> <<>>, GoPackage |-> "",
     ModelData |-> <<>>, Module |-> "", GetStateMode |-> 0,
     ReadOnlyPath |-> <<>>, ReadWritePath |-> <<>>]

\* NewCompiler(): &ModelCompiler{}
NewCompiler ==
    [pluginVersion |-> <<>>, metaData |-> Nil, modelInfo |-> Nil,
     dictionary |-> ZeroDictionary]

\* The errors the stages return, named by the call they come from
NoErr == "nil"
ErrLoadMetaData == "err LoadMetaData"
ErrReadVersion == "err ReadFile VERSION"
ErrLint == "err pyang --lint"
ErrReadDir == "err ReadDir yang"
ErrGenerator == "err generator"
ErrHeaderRead == "err insertHeaderPrefix ReadFile"
ErrHeaderWrite == "err insertHeaderPrefix WriteFile"
ErrTree == "err pyang -f tree"
ErrTemplate(tpl) ==
    CASE tpl = "main.go.tpl" -> "err applyTemplate main.go.tpl"
      [] tpl = "paths.go.tpl" -> "err applyTemplate paths.go.tpl"
      [] tpl = "go.mod.tpl" -> "err applyTemplate go.mod.tpl"
      [] tpl = "Makefile.tpl" -> "err applyTemplate Makefile.tpl"
      [] OTHER -> "err applyTemplate Dockerfile.tpl"

\* ------------------------------------------------------------ pure functions
\* Variant of the normalisation that replaces nothing
ReplaceAllNothing(v) == v

\* strings.ReplaceAll(v, "\r\n", "\n"): leftmost non-overlapping replacement
RECURSIVE ReplaceAllCRLF(_)
ReplaceAllCRLF(v) ==
    IF Len(v) = 0 THEN <<>>
    ELSE IF Len(v) >= 2 /\ v[1] = CR /\ v[2] = LF
         THEN <<LF>> \o ReplaceAllCRLF(SubSeq(v, 3, Len(v)))
         ELSE <<v[1]>> \o ReplaceAllCRLF(Tail(v))

\* strings.Split(s, "\n")[0]: what precedes the first LF, or all of s
RECURSIVE SplitFirst(_)
SplitFirst(s) ==
    IF Len(s) = 0 \/ s[1] = LF THEN <<>>
    ELSE <<s[1]>> \o SplitFirst(Tail(s))

\* Variant of loadPluginVersion that returns right after a failed read unless
\* a version is already set
loadPluginVersionSticky(cc, file) ==
    IF file = Nil
    THEN [c |-> IF cc.pluginVersion = <<>> THEN [cc EXCEPT !.pluginVersion = DefaultVersion]
                ELSE cc,
          err |-> ErrReadVersion]
    ELSE [c |-> [cc EXCEPT !.pluginVersion = SplitFirst(ReplaceAllCRLF(Deref(file)))],
          err |-> NoErr]

\* loadPluginVersion: the value left in c.pluginVersion and the error returned.
\* file is Nil when ioutil.ReadFile fails; data is then nil, string(data) is "".
loadPluginVersion(cc, file) ==
    LET failed == file = Nil
        data == IF failed THEN <<>> ELSE Deref(file)
        c1 == IF failed THEN [cc EXCEPT !.pluginVersion = DefaultVersion] ELSE cc
        v == data
        c2 == [c1 EXCEPT !.pluginVersion = SplitFirst(ReplaceAllCRLF(v))]
    IN  [c |-> c2, err |-> IF failed THEN ErrReadVersion ELSE NoErr]

\* Variant of the marker's first literal that ends its line
HeaderPart1Line ==
    <<"/", "/", " ", "C", "o", "d", "e", " ", "g", "e", "n", "e", "r", "a", "t", "e", "d",
      " ", "b", "y", " ", "Y", "G", "O", "T", ".", " ", "D", "O", " ", "N", "O", "T", LF>>

\* The bytes insertHeaderPrefix puts in front of the file's content
HeaderPart1 ==
    <<"/", "/", " ", "C", "o", "d", "e", " ", "g", "e", "n", "e", "r", "a", "t", "e", "d",
      " ", "b", "y", " ", "Y", "G", "O", "T", ".", " ", "D", "O", " ", "N", "O", "T">>
HeaderPart2 == <<"E", "D", "I", "T", ".", LF>>
HeaderMarker == HeaderPart1 \o HeaderPart2

\* Variant of insertHeaderPrefix that appends the marker's second part last
insertHeaderPrefixContentSplit(content) == HeaderPart1 \o content \o HeaderPart2

\* newContent of insertHeaderPrefix
insertHeaderPrefixContent(content) == HeaderMarker \o content

\* ------------------------------------------------------------- file system
\* Paths below the model directory `path`
apiDir == Join(<<>>, <<"api">>)
apiFile == Join(apiDir, <<"generated.go">>)
yangDir == Join(<<>>, <<"yang">>)
mainDir == Join(<<>>, <<"plugin">>)
mainFile == Join(mainDir, <<"main.go">>)
pathsFile == Join(mainDir, <<"paths.go">>)
gomodFile == Join(<<>>, <<"go.mod">>)
makefileFile == Join(<<>>, <<"Makefile">>)
dockerfileFile == Join(<<>>, <<"Dockerfile">>)
\* filepath.Join(path, c.modelInfo.Name+".tree"): the name and its suffix
treeFile(cc) == Join(<<>>, <<Deref(cc.modelInfo).Name, ".tree">>)

TreeFiles == {<<n, ".tree">> : n \in ModelNames}
TemplateFiles == {mainFile, pathsFile, gomodFile, makefileFile, dockerfileFile}
Dirs == {apiDir, mainDir}
ArtifactFiles == {apiFile} \cup TreeFiles \cup TemplateFiles
Paths == Dirs \cup ArtifactFiles

\* A file system entry is Nil (absent) or Ptr(content)
EmptyDir == [p \in Paths |-> Nil]
DirEntry == <<"dir">>

\* createDir: creates the directory when it does not exist, reports nothing
createDir(fs, d) == IF fs[d] = Nil THEN [fs EXCEPT ![d] = Ptr(DirEntry)] ELSE fs

\* Template engine: the text rendered from a template and the Dictionary
Render(tpl, dictionary) == <<tpl, dictionary>>

\* What pyang -f tree writes for its arguments
TreeOutput(args) == <<"tree", args>>

\* ------------------------------------------------------- stages of Compile
\* LoadMetaData(path, metaData): parses the manifest file into the record
LoadMetaData(manifestFile, md) ==
    IF manifestFile = Nil
    THEN [metaData |-> md, err |-> ErrLoadMetaData]
    ELSE [metaData |-> Deref(manifestFile), err |-> NoErr]

\* Variant of loadModelMetaData that gives every module the model's version
loadModelMetaDataModelVersion(cc, manifestFile) ==
    LET r == LoadMetaData(manifestFile, ZeroMetaData)
        c1 == [cc EXCEPT !.metaData = Ptr(r.metaData)]
        modules == r.metaData.Modules
        modelData == [i \in 1..Len(modules) |->
                        [Name |-> modules[i].Name,
                         Version |-> r.metaData.Version,
                         Organization |-> modules[i].Organization]]
        info == [Name |-> r.metaData.Name, Version |-> r.metaData.Version,
                 ModelData |-> modelData, Module |-> "",
                 GetStateMode |-> r.metaData.GetStateMode,
                 ReadOnlyPath |-> <<>>, ReadWritePath |-> <<>>]
    IN  IF r.err # NoErr
        THEN [c |-> c1, err |-> r.err]
        ELSE [c |-> [c1 EXCEPT !.modelInfo = Ptr(info)], err |-> NoErr]

\* Variant of loadModelMetaData that takes the module name from the model
loadModelMetaDataNamedModule(cc, manifestFile) ==
    LET r == LoadMetaData(manifestFile, ZeroMetaData)
        c1 == [cc EXCEPT !.metaData = Ptr(r.metaData)]
        modules == r.metaData.Modules
        modelData == [i \in 1..Len(modules) |->
                        [Name |-> modules[i].Name,
                         Version |-> modules[i].Revision,
                         Organization |-> modules[i].Organization]]
        info == [Name |-> r.metaData.Name, Version |-> r.metaData.Version,
                 ModelData |-> modelData, Module |-> r.metaData.Name,
                 GetStateMode |-> r.metaData.GetStateMode,
                 ReadOnlyPath |-> <<>>, ReadWritePath |-> <<>>]
    IN  IF r.err # NoErr
        THEN [c |-> c1, err |-> r.err]
        ELSE [c |-> [c1 EXCEPT !.modelInfo = Ptr(info)], err |-> NoErr]

\* loadModelMetaData
loadModelMetaData(cc, manifestFile) ==
    LET r == LoadMetaData(manifestFile, ZeroMetaData)
        c1 == [cc EXCEPT !.metaData = Ptr(r.metaData)]
        modules == r.metaData.Modules
        modelData == [i \in 1..Len(modules) |->
                        [Name |-> modules[i].Name,
                         Version |-> modules[i].Revision,
                         Organization |-> modules[i].Organization]]
        info == [Name |-> r.metaData.Name, Version |-> r.metaData.Version,
                 ModelData |-> modelData, Module |-> "",
                 GetStateMode |-> r.metaData.GetStateMode,
                 ReadOnlyPath |-> <<>>, ReadWritePath |-> <<>>]
    IN  IF r.err # NoErr
        THEN [c |-> c1, err |-> r.err]
        ELSE [c |-> [c1 EXCEPT !.modelInfo = Ptr(info)], err |-> NoErr]

\* Variant of the Dictionary literal that keeps a plugin version already set
BuildDictionaryKeepVersion(cc) ==
    LET mi == Deref(cc.modelInfo)
        md == Deref(cc.metaData)
    IN  [Name |-> mi.Name, Version |-> mi.Version,
         PluginVersion |-> IF cc.dictionary.PluginVersion # <<>>
                           THEN cc.dictionary.PluginVersion ELSE cc.pluginVersion,
         GoPackage |-> md.GoPackage, ModelData |-> mi.ModelData, Module |-> mi.Module,
         GetStateMode |-> mi.GetStateMode, ReadOnlyPath |-> mi.ReadOnlyPath,
         ReadWritePath |-> mi.ReadWritePath]

\* The Dictionary literal of Compile
BuildDictionary(cc) ==
    LET mi == Deref(cc.modelInfo)
        md == Deref(cc.metaData)
    IN  [Name |-> mi.Name, Version |-> mi.Version, PluginVersion |-> cc.pluginVersion,
         GoPackage |-> md.GoPackage, ModelData |-> mi.ModelData, Module |-> mi.Module,
         GetStateMode |-> mi.GetStateMode, ReadOnlyPath |-> mi.ReadOnlyPath,
         ReadWritePath |-> mi.ReadWritePath]

\* lintModel: the argument list handed to pyang
LintFlags == << <<"--lint">>, <<"--lint-ensure-hyphenated-names">>, <<"-W">>, <<"error">> >>
\* Variant of lintModel that appends the modules last to first
lintModelArgsReversed(cc) ==
    LET modules == Deref(cc.metaData).Modules
        n == Len(modules)
    IN  LintFlags \o [i \in 1..n |-> Join(yangDir, <<modules[n + 1 - i].YangFile>>)]

lintModelArgs(cc) ==
    LET modules == Deref(cc.metaData).Modules
    IN  LintFlags \o [i \in 1..Len(modules) |-> Join(yangDir, <<modules[i].YangFile>>)]

\* generateGolangBindings: the argument list handed to the generator
GeneratorFlags ==
    << <<"-path=">> \o yangDir, <<"-output_file=">> \o apiFile, <<"-package_name=api">>,
       <<"-generate_fakeroot">>, <<"--include_descriptions">> >>
\* Variant of generateGolangBindings that appends the manifest's module files
generateGolangBindingsArgsModules(cc, files) ==
    LET modules == Deref(cc.metaData).Modules
    IN  GeneratorFlags \o [i \in 1..Len(modules) |-> <<modules[i].YangFile>>]

generateGolangBindingsArgs(cc, files) ==
    GeneratorFlags \o [i \in 1..Len(files) |-> <<files[i]>>]

\* generateModelTree: the argument list handed to pyang
TreeFlags(cc) ==
    << <<"-f">>, <<"tree">>, <<"-p">>, yangDir, <<"-o">>, treeFile(cc) >>
generateModelTreeArgs(cc) ==
    LET modules == Deref(cc.metaData).Modules
    IN  TreeFlags(cc) \o [i \in 1..Len(modules) |-> Join(yangDir, <<modules[i].YangFile>>)]

\* Stage names, in the order Compile and generatePluginArtifacts reach them
StLoad == "LoadMetadata"
StVersion == "ResolveVersion"
StLint == "Lint"
StDict == "BuildDictionary"
StBindings == "GenerateBindings"
StHeader == "HeaderPostProcess"
StTree == "GenerateTree"
StMain == "main.go"
StPaths == "paths.go"
StGoMod == "go.mod"
StMakefile == "Makefile"
StDockerfile == "Dockerfile"

\* Compile: where control goes when `stage` has returned `err`
\* (pc "done" is the return statement, result the returned error)
CompileControl(cc, stage, err) ==
    CASE stage = StLoad ->
            IF err # NoErr THEN [pc |-> "done", result |-> err]
            ELSE [pc |-> "loadPluginVersion", result |-> "none"]
      [] stage = StVersion ->
            IF Deref(cc.metaData).LintModel
            THEN [pc |-> "lintModel", result |-> "none"]
            ELSE [pc |-> "dictionary", result |-> "none"]
      [] stage = StLint ->
            IF err # NoErr THEN [pc |-> "done", result |-> err]
            ELSE [pc |-> "dictionary", result |-> "none"]
      [] stage = StDict -> [pc |-> "generateGolangBindings", result |-> "none"]
      [] stage = StBindings ->
            \* inside generateGolangBindings: an error returns through Compile
            IF err # NoErr THEN [pc |-> "done", result |-> err]
            ELSE [pc |-> "insertHeaderPrefix", result |-> "none"]
      [] stage = StHeader ->
            IF err # NoErr THEN [pc |-> "done", result |-> err]
            ELSE [pc |-> "generateModelTree", result |-> "none"]
      [] stage = StTree ->
            IF err # NoErr THEN [pc |-> "done", result |-> err]
            ELSE [pc |-> "generateMain", result |-> "none"]
      [] OTHER -> [pc |-> "done", result |-> err]

\* Variants of Compile's control flow with one check changed
CompileNextTreeErrDropped(cc, stage, err) ==
    IF stage = StTree THEN CompileControl(cc, stage, NoErr) ELSE CompileControl(cc, stage, err)
CompileNextTreeFirst(cc, stage, err) ==
    IF stage = StDict THEN [pc |-> "generateModelTree", result |-> "none"]
    ELSE CompileControl(cc, stage, err)
CompileNextLintIgnored(cc, stage, err) ==
    IF stage = StLint THEN CompileControl(cc, stage, NoErr) ELSE CompileControl(cc, stage, err)
CompileNextVersionFatal(cc, stage, err) ==
    IF stage = StVersion /\ err # NoErr THEN [pc |-> "done", result |-> err]
    ELSE CompileControl(cc, stage, err)
CompileNextAlwaysLint(cc, stage, err) ==
    IF stage = StVersion THEN [pc |-> "lintModel", result |-> "none"]
    ELSE CompileControl(cc, stage, err)
CompileNextRetryTree(cc, stage, err) ==
    IF stage = StTree /\ err # NoErr THEN [pc |-> "generateModelTree", result |-> "none"]
    ELSE CompileControl(cc, stage, err)
CompileNextHeaderAlways(cc, stage, err) ==
    IF stage = StBindings /\ err = ErrGenerator
    THEN [pc |-> "insertHeaderPrefix", result |-> "none"]
    ELSE CompileControl(cc, stage, err)

\* The control flow of Compile, as the stages below follow it
CompileNext(cc, stage, err) == CompileControl(cc, stage, err)

\* generatePluginArtifacts: where control goes when a rendering has returned
generatePluginArtifactsControl(stage, err) ==
    IF err # NoErr THEN [pc |-> "done", result |-> err]
    ELSE CASE stage = StMain -> [pc |-> "generatePathsExtraction", result |-> "none"]
           [] stage = StPaths -> [pc |-> "generateGoModule", result |-> "none"]
           [] stage = StGoMod -> [pc |-> "generateMakefile", result |-> "none"]
           [] stage = StMakefile -> [pc |-> "generateDockerfile", result |-> "none"]
           [] OTHER -> [pc |-> "done", result |-> NoErr]

\* Variant of generatePluginArtifacts that returns after go.mod
generatePluginArtifactsNextShort(stage, err) ==
    IF stage = StGoMod /\ err = NoErr THEN [pc |-> "done", result |-> NoErr]
    ELSE generatePluginArtifactsControl(stage, err)

\* The control flow of generatePluginArtifacts, as the renderings follow it
generatePluginArtifactsNext(stage, err) == generatePluginArtifactsControl(stage, err)

\* -------------------------------------------------------------------- state
VARIABLES
    run,      \* the Compile call in progress on the ModelCompiler c
    fresh,    \* the same call, made on a ModelCompiler straight from NewCompiler()
    dir,      \* the model directory's inputs: manifest, VERSION, yang/ listing
    files,    \* the artifacts in the model directory
    files0,   \* files as they were when the call started
    calls     \* number of Compile calls started on c

vars == <<run, fresh, dir, files, files0, calls>>

\* A call's state: the compiler's fields, the position in Compile, the value
\* returned, the stages started and completed, the tool argument lists and
\* the file writes
StartCall(cc) ==
    [c |-> cc, pc |-> "loadModelMetaData", result |-> "none",
     started |-> <<>>, completed |-> <<>>,
     lintArgs |-> Nil, genArgs |-> Nil, treeArgs |-> Nil, writes |-> <<>>]

Goto(R, nx) == [R EXCEPT !.pc = nx.pc, !.result = nx.result]
Started(R, st) == [R EXCEPT !.started = Append(@, st)]
Completed(R, st, err) == [R EXCEPT !.completed = Append(@, <<st, err>>)]
Wrote(R, p, content) == [R EXCEPT !.writes = Append(@, <<p, content>>)]

RECURSIVE ApplyWrites(_, _)
ApplyWrites(fs, ws) ==
    IF ws = <<>> THEN fs
    ELSE ApplyWrites([fs EXCEPT ![ws[1][1]] = Ptr(ws[1][2])], Tail(ws))

NewWrites(R, R2) == SubSeq(R2.writes, Len(R.writes) + 1, Len(R2.writes))

\* c.createDir(d), as a write of the call
createDirIn(R, fs, d) == IF createDir(fs, d) # fs THEN Wrote(R, d, DirEntry) ELSE R

\* err = c.loadModelMetaData(path) and the check that follows
DoLoadMetaData(R, d) ==
    LET r == loadModelMetaData(R.c, d.manifest)
        R1 == Completed(Started([R EXCEPT !.c = r.c], StLoad), StLoad, r.err)
    IN  Goto(R1, CompileNext(r.c, StLoad, r.err))

\* err = c.loadPluginVersion(path); the error is only logged
DoLoadPluginVersion(R, d) ==
    LET r == loadPluginVersion(R.c, d.version)
        R1 == Completed(Started([R EXCEPT !.c = r.c], StVersion), StVersion, r.err)
    IN  Goto(R1, CompileNext(r.c, StVersion, r.err))

\* Variant of lintModel that starts pyang and does not wait for it
DoLintStartNoWait(R) ==
    [Started(R, StLint) EXCEPT !.lintArgs = Ptr(lintModelArgs(R.c)), !.pc = "dictionary"]

\* c.lintModel(path) up to cmd.Run()
DoLintStart(R) ==
    [Started(R, StLint) EXCEPT !.lintArgs = Ptr(lintModelArgs(R.c)), !.pc = "pyang --lint"]

\* cmd.Run() of lintModel returns
DoLintExit(R, code) ==
    LET err == IF code = 0 THEN NoErr ELSE ErrLint
    IN  Goto(Completed(R, StLint, err), CompileNext(R.c, StLint, err))

\* c.dictionary = Dictionary{...}
DoBuildDictionary(R) ==
    LET R1 == [R EXCEPT !.c.dictionary = BuildDictionary(R.c)]
    IN  Goto(Completed(Started(R1, StDict), StDict, NoErr), CompileNext(R.c, StDict, NoErr))

\* generateGolangBindings up to cmd.Run()
DoGenerateBindingsStart(R, d, fs) ==
    LET R1 == createDirIn(Started(R, StBindings), fs, apiDir)
    IN  IF d.yang = Nil
        THEN Goto(Completed(R1, StBindings, ErrReadDir),
                  CompileNext(R.c, StBindings, ErrReadDir))
        ELSE [R1 EXCEPT !.genArgs = Ptr(generateGolangBindingsArgs(R.c, Deref(d.yang))),
                        !.pc = "generator"]

\* cmd.Run() of generateGolangBindings returns; exit 0 means the output file
\* was written
DoGeneratorExit(R, d, code) ==
    IF code # 0
    THEN Goto(Completed(R, StBindings, ErrGenerator),
              CompileNext(R.c, StBindings, ErrGenerator))
    ELSE Goto(Completed(Wrote(R, apiFile, d.generated), StBindings, NoErr),
              CompileNext(R.c, StBindings, NoErr))

\* insertHeaderPrefix(apiFile).  io is what the file system does: "ok",
\* "readErr" (ReadFile fails), "openErr" (WriteFile cannot open the file),
\* "writeErr" (WriteFile fails after truncating it)
insertHeaderPrefix(R, fs, io) ==
    LET R1 == Started(R, StHeader)
        err == IF fs[apiFile] = Nil \/ io = "readErr" THEN ErrHeaderRead
               ELSE IF io \in {"openErr", "writeErr"} THEN ErrHeaderWrite
               ELSE NoErr
        R2 == IF err = ErrHeaderRead \/ io = "openErr" THEN R1
              ELSE IF io = "writeErr" THEN Wrote(R1, apiFile, <<>>)
              ELSE Wrote(R1, apiFile, insertHeaderPrefixContent(Deref(fs[apiFile])))
    IN  Goto(Completed(R2, StHeader, err), CompileNext(R.c, StHeader, err))

\* generateModelTree up to cmd.Run()
DoTreeStart(R) ==
    [Started(R, StTree) EXCEPT !.treeArgs = Ptr(generateModelTreeArgs(R.c)),
                               !.pc = "pyang -f tree"]

\* cmd.Run() of generateModelTree returns; exit 0 means the tree was written
DoTreeExit(R, code) ==
    IF code # 0
    THEN Goto(Completed(R, StTree, ErrTree), CompileNext(R.c, StTree, ErrTree))
    ELSE Goto(Completed(Wrote(R, treeFile(R.c), TreeOutput(Deref(R.treeArgs))), StTree, NoErr),
              CompileNext(R.c, StTree, NoErr))

\* c.applyTemplate(name, c.getTemplatePath(name), file): renders the template
\* with c.dictionary into file, or fails and writes nothing
applyTemplate(R, tpl, file, ok) ==
    IF ok THEN [R |-> Wrote(R, file, Render(tpl, R.c.dictionary)), err |-> NoErr]
    ELSE [R |-> R, err |-> ErrTemplate(tpl)]

\* generateMain, generatePathsExtraction, generateGoModule, generateMakefile,
\* generateDockerfile: stage st renders tpl into file, after createDir(mainDir)
\* when inPlugin
DoGenerate(R, st, tpl, file, inPlugin, fs, ok) ==
    LET R1 == Started(R, st)
        R2 == IF inPlugin THEN createDirIn(R1, fs, mainDir) ELSE R1
        r == applyTemplate(R2, tpl, file, ok)
    IN  Goto(Completed(r.R, st, r.err), generatePluginArtifactsNext(st, r.err))

ExitCodes == {0, 1}
IOOutcomes == {"ok", "readErr", "openErr", "writeErr"}

\* The call on c and the call on the fresh compiler take the same step while
\* they are at the same place
Both(runNext, freshNext) ==
    /\ run' = runNext
    /\ fresh' = IF fresh.pc = run.pc THEN freshNext ELSE fresh
    /\ files' = ApplyWrites(files, NewWrites(run, runNext))
    /\ UNCHANGED <<dir, files0, calls>>

LoadMetaDataStep ==
    /\ run.pc = "loadModelMetaData"
    /\ Both(DoLoadMetaData(run, dir), DoLoadMetaData(fresh, dir))

LoadPluginVersionStep ==
    /\ run.pc = "loadPluginVersion"
    /\ Both(DoLoadPluginVersion(run, dir), DoLoadPluginVersion(fresh, dir))

LintStart ==
    /\ run.pc = "lintModel"
    /\ Both(DoLintStart(run), DoLintStart(fresh))

LintExit ==
    /\ run.pc = "pyang --lint"
    /\ \E code \in ExitCodes : Both(DoLintExit(run, code), DoLintExit(fresh, code))

BuildDictionaryStep ==
    /\ run.pc = "dictionary"
    /\ Both(DoBuildDictionary(run), DoBuildDictionary(fresh))

GenerateBindingsStart ==
    /\ run.pc = "generateGolangBindings"
    /\ Both(DoGenerateBindingsStart(run, dir, files), DoGenerateBindingsStart(fresh, dir, files))

GeneratorExit ==
    /\ run.pc = "generator"
    /\ \E code \in ExitCodes : Both(DoGeneratorExit(run, dir, code), DoGeneratorExit(fresh, dir, code))

InsertHeaderPrefixStep ==
    /\ run.pc = "insertHeaderPrefix"
    /\ \E io \in IOOutcomes : Both(insertHeaderPrefix(run, files, io), insertHeaderPrefix(fresh, files, io))

TreeStart ==
    /\ run.pc = "generateModelTree"
    /\ Both(DoTreeStart(run), DoTreeStart(fresh))

TreeExit ==
    /\ run.pc = "pyang -f tree"
    /\ \E code \in ExitCodes : Both(DoTreeExit(run, code), DoTreeExit(fresh, code))

generateMain ==
    /\ run.pc = "generateMain"
    /\ \E ok \in BOOLEAN :
         Both(DoGenerate(run, StMain, mainTemplate, mainFile, TRUE, files, ok),
              DoGenerate(fresh, StMain, mainTemplate, mainFile, TRUE, files, ok))

generatePathsExtraction ==
    /\ run.pc = "generatePathsExtraction"
    /\ \E ok \in BOOLEAN :
         Both(DoGenerate(run, StPaths, pathsUtilsTemplate, pathsFile, TRUE, files, ok),
              DoGenerate(fresh, StPaths, pathsUtilsTemplate, pathsFile, TRUE, files, ok))

generateGoModule ==
    /\ run.pc = "generateGoModule"
    /\ \E ok \in BOOLEAN :
         Both(DoGenerate(run, StGoMod, gomodTemplate, gomodFile, FALSE, files, ok),
              DoGenerate(fresh, StGoMod, gomodTemplate, gomodFile, FALSE, files, ok))

generateMakefile ==
    /\ run.pc = "generateMakefile"
    /\ \E ok \in BOOLEAN :
         Both(DoGenerate(run, StMakefile, makefileTemplate, makefileFile, FALSE, files, ok),
              DoGenerate(fresh, StMakefile, makefileTemplate, makefileFile, FALSE, files, ok))

generateDockerfile ==
    /\ run.pc = "generateDockerfile"
    /\ \E ok \in BOOLEAN :
         Both(DoGenerate(run, StDockerfile, dockerfileTemplate, dockerfileFile, FALSE, files, ok),
              DoGenerate(fresh, StDockerfile, dockerfileTemplate, dockerfileFile, FALSE, files, ok))

\* The caller invokes Compile again on the same ModelCompiler
CompileAgain ==
    /\ run.pc = "done"
    /\ calls < MaxCalls
    /\ \E d \in CallDirs : dir' = d
    /\ run' = StartCall(run.c)
    /\ fresh' = StartCall(NewCompiler)
    /\ files0' = files
    /\ calls' = calls + 1
    /\ UNCHANGED files

InitOn(ds) ==
    /\ dir \in ds
    /\ run = StartCall(NewCompiler)
    /\ fresh = StartCall(NewCompiler)
    /\ files = EmptyDir
    /\ files0 = EmptyDir
    /\ calls = 1

Init == InitOn(ModelDirs)
InitCalls == InitOn(CallDirs)

Next ==
    \/ LoadMetaDataStep
    \/ LoadPluginVersionStep
    \/ LintStart
    \/ LintExit
    \/ BuildDictionaryStep
    \/ GenerateBindingsStart
    \/ GeneratorExit
    \/ InsertHeaderPrefixStep
    \/ TreeStart
    \/ TreeExit
    \/ generateMain
    \/ generatePathsExtraction
    \/ generateGoModule
    \/ generateMakefile
    \/ generateDockerfile

NextCalls == Next \/ CompileAgain

\* One Compile call on a new ModelCompiler
Spec == Init /\ [][Next]_vars

\* A sequence of Compile calls on one ModelCompiler
SpecCalls == InitCalls /\ [][NextCalls]_vars

\* One Compile call in which every step that can be taken is taken in the
\* end: Compile is straight-line code on one goroutine, and every tool it runs
\* and every file operation it makes returns
SpecFair == Init /\ [][Next]_vars /\ WF_vars(Next)

\* ==================================================================== claims
c == run.c
pc == run.pc
Returned == run.pc = "done"
StageOf(i) == run.completed[i][1]
ErrOf(i) == run.completed[i][2]
HasCompleted(st, err) == \E i \in 1..Len(run.completed) : run.completed[i] = <<st, err>>
HasWritten(p) == \E i \in 1..Len(run.writes) : run.writes[i][1] = p
ManifestLoaded == dir.manifest # Nil /\ HasCompleted(StLoad, NoErr)

\* C1: a hard stage (every stage but version resolution) that fails is the
\* last stage started, and Compile has returned exactly that stage's error;
\* Compile returns nil only if no hard stage that ran has failed.
C1_FailFast ==
    /\ \A i \in 1..Len(run.completed) :
         (StageOf(i) # StVersion /\ ErrOf(i) # NoErr) =>
            /\ Returned
            /\ run.result = ErrOf(i)
            /\ i = Len(run.completed)
            /\ Len(run.started) = i
    /\ (Returned /\ run.result = NoErr) =>
          \A i \in 1..Len(run.completed) : StageOf(i) # StVersion => ErrOf(i) = NoErr

\* C1 witness: tree generation failed after bindings were generated, and
\* Compile returned its error
C1_Witness ==
    /\ Returned
    /\ run.result = ErrTree
    /\ HasCompleted(StBindings, NoErr)
    /\ HasCompleted(StTree, ErrTree)

\* C2: when the VERSION file cannot be read, the plugin version resolved by
\* loadPluginVersion, and the Dictionary's PluginVersion, is "1.0.0".
C2_MissingVersionDefaults ==
    (dir.version = Nil /\ HasCompleted(StVersion, ErrReadVersion)) =>
        /\ c.pluginVersion = DefaultVersion
        /\ HasCompleted(StDict, NoErr) => c.dictionary.PluginVersion = DefaultVersion

\* The stages of a Compile call in their fixed order, Lint only when enabled
ExpectedOrder(lint) ==
    <<StLoad, StVersion>> \o (IF lint THEN <<StLint>> ELSE <<>>)
    \o <<StDict, StBindings, StHeader, StTree,
         StMain, StPaths, StGoMod, StMakefile, StDockerfile>>

\* C3: the stages started so far are an initial part of the fixed order (Lint
\* present exactly when the manifest enables it), so none starts twice; a
\* stage starts only when every stage started before it has completed.
C3_StageOrder ==
    /\ \E lint \in BOOLEAN :
         /\ (dir.manifest # Nil => lint = Deref(dir.manifest).LintModel)
         /\ IsPrefix(run.started, ExpectedOrder(lint))
    /\ Len(run.completed) \in {Len(run.started) - 1, Len(run.started)}
    /\ \A i \in 1..Len(run.completed) : StageOf(i) = run.started[i]
    /\ Len(run.completed) < Len(run.started) =>
          pc \in {"pyang --lint", "generator", "pyang -f tree"}

\* C3 witness: a successful compile with lint enabled ran all twelve stages
C3_Witness ==
    /\ Returned
    /\ run.result = NoErr
    /\ run.started = ExpectedOrder(TRUE)
    /\ Len(run.completed) = Len(run.started)

Manifest == Deref(dir.manifest)
Positional(args, flags) == SubSeq(args, Len(flags) + 1, Len(args))
\* The i-th module's schema file under yang/, for i in manifest order
ModuleFiles == [i \in 1..Len(Manifest.Modules) |-> Join(yangDir, <<Manifest.Modules[i].YangFile>>)]
ModuleBareFiles == [i \in 1..Len(Manifest.Modules) |-> <<Manifest.Modules[i].YangFile>>]

\* C4 as stated: the Lint, Generate-Bindings and Generate-Tree argument lists
\* each hold exactly N module-derived positional arguments, in manifest order.
C4_AllToolsTakeModules ==
    ManifestLoaded =>
        /\ run.lintArgs # Nil => Positional(Deref(run.lintArgs), LintFlags) = ModuleFiles
        /\ run.treeArgs # Nil => Positional(Deref(run.treeArgs), TreeFlags(c)) = ModuleFiles
        /\ run.genArgs # Nil =>
              Positional(Deref(run.genArgs), GeneratorFlags) \in {ModuleFiles, ModuleBareFiles}

\* C4 amended: the Lint and Generate-Tree argument lists each hold exactly N
\* module-derived positional arguments, in manifest order; the
\* Generate-Bindings argument list holds one positional argument per entry
\* of the yang/ directory, in listing order, whatever N is.
C4_ToolArguments ==
    ManifestLoaded =>
        /\ run.lintArgs # Nil =>
              LET pos == Positional(Deref(run.lintArgs), LintFlags)
              IN  /\ Len(pos) = Len(Manifest.Modules)
                  /\ \A i \in 1..Len(pos) : pos[i] = <<"yang", Manifest.Modules[i].YangFile>>
        /\ run.treeArgs # Nil =>
              LET pos == Positional(Deref(run.treeArgs), TreeFlags(c))
              IN  /\ Len(pos) = Len(Manifest.Modules)
                  /\ \A i \in 1..Len(pos) : pos[i] = <<"yang", Manifest.Modules[i].YangFile>>
        /\ run.genArgs # Nil =>
              LET pos == Positional(Deref(run.genArgs), GeneratorFlags)
              IN  /\ Len(pos) = Len(Deref(dir.yang))
                  /\ \A i \in 1..Len(pos) : pos[i] = <<Deref(dir.yang)[i]>>

\* C4 witness: all three tools were invoked for a manifest with two different
\* modules whose yang/ directory lists another number of files
C4_Witness ==
    /\ ManifestLoaded
    /\ run.lintArgs # Nil /\ run.genArgs # Nil /\ run.treeArgs # Nil
    /\ Len(Manifest.Modules) = 2
    /\ Manifest.Modules[1] # Manifest.Modules[2]
    /\ Len(Deref(dir.yang)) # 2

\* C5: once the linter has exited non-zero, the call has written nothing and
\* every artifact and directory is as it was when the call started.
C5_LintFailureWritesNothing ==
    HasCompleted(StLint, ErrLint) =>
        /\ run.writes = <<>>
        /\ files = files0

\* C5 witness: the linter failed in a call on a directory that already held
\* the artifacts of an earlier compile
C5_Witness ==
    /\ HasCompleted(StLint, ErrLint)
    /\ Returned
    /\ \A p \in TemplateFiles \cup {apiFile, apiDir, mainDir} : files0[p] # Nil

\* C6: a failed VERSION read is never the error Compile returns, and right
\* after it (before the next stage starts) Compile has not returned and is
\* about to lint or to build the Dictionary; every other stage
\* that fails makes Compile return that failure.
C6_VersionSoftFail ==
    /\ run.result # ErrReadVersion
    /\ \A i \in 1..Len(run.completed) :
         ErrOf(i) # NoErr =>
            IF StageOf(i) = StVersion
            THEN /\ (i = Len(run.completed) /\ i = Len(run.started)) =>
                      /\ ~Returned
                      /\ pc = (IF Manifest.LintModel THEN "lintModel" ELSE "dictionary")
                 /\ Returned => Len(run.started) > i
            ELSE Returned /\ run.result = ErrOf(i)

\* C6 witness: the VERSION read failed and the compile still succeeded
C6_Witness ==
    /\ HasCompleted(StVersion, ErrReadVersion)
    /\ Returned
    /\ run.result = NoErr

\* C7: once insertHeaderPrefix has succeeded on a binding file of content C,
\* the file holds the marker's bytes followed by C's bytes and nothing else.
C7_HeaderPrefix ==
    HasCompleted(StHeader, NoErr) =>
        /\ files[apiFile] # Nil
        /\ LET new == Deref(files[apiFile])
               C == dir.generated
           IN  /\ Len(new) = Len(HeaderMarker) + Len(C)
               /\ \A i \in 1..Len(HeaderMarker) : new[i] = HeaderMarker[i]
               /\ \A j \in 1..Len(C) : new[Len(HeaderMarker) + j] = C[j]

\* C7 witness: the header was prepended to a non-empty binding file
C7_Witness ==
    /\ HasCompleted(StHeader, NoErr)
    /\ Len(dir.generated) = MaxContentLen
    /\ Len(Deref(files[apiFile])) > Len(HeaderMarker)

\* Position of the first LF of v, Len(v) + 1 when there is none
FirstLF(v) ==
    IF \E k \in 1..Len(v) : v[k] = LF
    THEN CHOOSE k \in 1..Len(v) : v[k] = LF /\ \A j \in 1..(k - 1) : v[j] # LF
    ELSE Len(v) + 1
BeforeFirstLF(v) == SubSeq(v, 1, FirstLF(v) - 1)
\* The first line of v when a line ends at LF or CR LF
FirstLine(v) ==
    LET k == FirstLF(v)
    IN  IF 1 < k /\ k <= Len(v) /\ v[k - 1] = CR THEN SubSeq(v, 1, k - 2)
        ELSE SubSeq(v, 1, k - 1)
VersionRead == dir.version # Nil /\ HasCompleted(StVersion, NoErr)

\* C8 as stated: the resolved version of a readable VERSION file is what
\* precedes its first line break, never ends in a carriage return and holds
\* nothing from later lines.
C8_FirstLineNoCR ==
    VersionRead =>
        /\ c.pluginVersion = FirstLine(Deref(dir.version))
        /\ c.pluginVersion # <<>> => c.pluginVersion[Len(c.pluginVersion)] # CR

\* C8 amended: the resolved version of a readable VERSION file is what
\* precedes its first LF, less one carriage return directly before that LF;
\* it holds no LF and nothing from later lines, and it keeps any other
\* carriage return, a trailing one included ("2\r" resolves to "2\r",
\* "2\r\r\n" to "2\r").
C8_FirstLine ==
    VersionRead =>
        /\ c.pluginVersion = FirstLine(Deref(dir.version))
        /\ \A i \in 1..Len(c.pluginVersion) : c.pluginVersion[i] # LF
        /\ IsPrefix(c.pluginVersion, Deref(dir.version))

\* C8 witness: a VERSION file with a CR LF line break and a second line
C8_Witness ==
    /\ VersionRead
    /\ \E k \in 2..(Len(Deref(dir.version)) - 1) :
          /\ Deref(dir.version)[k - 1] = CR
          /\ Deref(dir.version)[k] = LF
          /\ FirstLF(Deref(dir.version)) = k
          /\ c.pluginVersion = SubSeq(Deref(dir.version), 1, k - 2)

\* The last content the call wrote to p
LastWritten(p) ==
    LET k == CHOOSE i \in 1..Len(run.writes) :
                 run.writes[i][1] = p /\ \A j \in (i + 1)..Len(run.writes) : run.writes[j][1] # p
    IN  run.writes[k][2]

\* C9: when Compile has returned nil, this call wrote all seven artifacts:
\* api/generated.go, which starts with the marker, <model-name>.tree,
\* plugin/main.go, plugin/paths.go, go.mod, Makefile and Dockerfile; each is
\* still there as written, and the Dictionary's Name is the manifest's name.
C9_SuccessProducesAll ==
    (Returned /\ run.result = NoErr) =>
        /\ dir.manifest # Nil
        /\ \A p \in {apiFile, <<Manifest.Name, ".tree">>} \cup TemplateFiles :
              /\ HasWritten(p)
              /\ files[p] = Ptr(LastWritten(p))
        /\ IsPrefix(HeaderMarker, Deref(files[apiFile]))
        /\ files[mainFile] = Ptr(Render(mainTemplate, c.dictionary))
        /\ files[pathsFile] = Ptr(Render(pathsUtilsTemplate, c.dictionary))
        /\ files[gomodFile] = Ptr(Render(gomodTemplate, c.dictionary))
        /\ files[makefileFile] = Ptr(Render(makefileTemplate, c.dictionary))
        /\ files[dockerfileFile] = Ptr(Render(dockerfileTemplate, c.dictionary))
        /\ c.dictionary.Name = Manifest.Name

\* C9 witness: a successful compile of a one-module manifest, lint disabled,
\* no VERSION file
C9_Witness ==
    /\ Returned
    /\ run.result = NoErr
    /\ Len(Manifest.Modules) = 1
    /\ ~Manifest.LintModel
    /\ dir.version = Nil

\* What a call produces: everything but the compiler's own fields
Outcome(R) ==
    [result |-> R.result, returned |-> R.pc = "done", started |-> R.started,
     completed |-> R.completed, lintArgs |-> R.lintArgs, genArgs |-> R.genArgs,
     treeArgs |-> R.treeArgs, writes |-> R.writes]

\* C10: at every point of every call on a ModelCompiler that earlier calls
\* have used, the result, the stages run, the tool argument lists, the files
\* written and the Dictionary rendered from are those of the same call on a
\* new ModelCompiler.
C10_NoStateBetweenCompiles ==
    /\ Outcome(run) = Outcome(fresh)
    /\ HasCompleted(StDict, NoErr) => run.c.dictionary = fresh.c.dictionary

\* C10 witness: a second call has returned on a compiler whose fields still
\* differ from a new compiler's at that point
C10_Witness ==
    /\ calls = 2
    /\ Returned
    /\ run.c # fresh.c
    /\ files0 # EmptyDir

\* C10 witness of the successful case: a second call succeeded after a first
\* call that left other fields behind
C10_WitnessSuccess ==
    /\ calls = 2
    /\ Returned
    /\ run.result = NoErr
    /\ files0[<<"bar", ".tree">>] # Nil
    /\ Manifest.Name = "foo"

\* C11: the generator's argument list is the five fixed flags (path, output
\* file, package name, fake root, include descriptions) followed by the bare
\* name of every entry of yang/, in the order the listing returned them,
\* whatever modules the manifest lists.
C11_GeneratorArguments ==
    run.genArgs # Nil =>
        LET args == Deref(run.genArgs)
            listing == Deref(dir.yang)
        IN  /\ dir.yang # Nil
            /\ Len(args) = 5 + Len(listing)
            /\ args[1] = <<"-path=", "yang">>
            /\ args[2] = <<"-output_file=", "api", "generated.go">>
            /\ args[3] = <<"-package_name=api">>
            /\ args[4] = <<"-generate_fakeroot">>
            /\ args[5] = <<"--include_descriptions">>
            /\ \A i \in 1..Len(listing) : args[5 + i] = <<listing[i]>>

\* C11 witness: the generator was invoked on a listing that is not sorted and
\* names a file no module of the manifest has
C11_Witness ==
    /\ run.genArgs # Nil
    /\ Deref(dir.yang) = <<"c.yang", "a.yang">>
    /\ Len(Manifest.Modules) = 1

\* C12: the linter has been invoked, in lint mode, exactly when the manifest
\* was loaded with its lint flag set and Compile got past version
\* resolution; with the flag clear the stage after version resolution is the
\* Dictionary and Compile never returns a lint error.
C12_LintOnlyWhenEnabled ==
    /\ run.lintArgs # Nil =>
          /\ ManifestLoaded
          /\ Manifest.LintModel
          /\ Deref(run.lintArgs)[1] = <<"--lint">>
    /\ (ManifestLoaded /\ Len(run.started) >= 3) =>
          IF Manifest.LintModel
          THEN run.started[3] = StLint /\ run.lintArgs # Nil
          ELSE /\ run.started[3] = StDict
               /\ run.lintArgs = Nil
               /\ run.result # ErrLint
               /\ \A i \in 1..Len(run.started) : run.started[i] # StLint
    /\ (ManifestLoaded /\ Len(run.completed) = 2 /\ Len(run.started) = 2) =>
          pc = (IF Manifest.LintModel THEN "lintModel" ELSE "dictionary")
    /\ dir.manifest = Nil => run.lintArgs = Nil

\* C12 witness: a compile with the lint flag clear succeeded without the
\* linter having been invoked
C12_Witness ==
    /\ ManifestLoaded
    /\ ~Manifest.LintModel
    /\ Returned
    /\ run.result = NoErr
    /\ run.lintArgs = Nil

\* What a plugin template stage leaves in its file
Rendered(tpl) == Ptr(Render(tpl, c.dictionary))

\* No stage of the call was started twice
NoStageTwice ==
    \A i, j \in 1..Len(run.started) : run.started[i] = run.started[j] => i = j

\* Every output of a tree or template stage that succeeded in this call is
\* still in place
LaterOutputsKept ==
    /\ HasCompleted(StBindings, NoErr) => files[apiDir] # Nil
    /\ HasCompleted(StHeader, NoErr) =>
          files[apiFile] = Ptr(insertHeaderPrefixContent(dir.generated))
    /\ HasCompleted(StTree, NoErr) =>
          files[treeFile(c)] = Ptr(TreeOutput(Deref(run.treeArgs)))
    /\ HasCompleted(StMain, NoErr) => files[mainFile] = Rendered(mainTemplate)
    /\ HasCompleted(StPaths, NoErr) => files[pathsFile] = Rendered(pathsUtilsTemplate)
    /\ HasCompleted(StGoMod, NoErr) => files[gomodFile] = Rendered(gomodTemplate)
    /\ HasCompleted(StMakefile, NoErr) => files[makefileFile] = Rendered(makefileTemplate)
    /\ HasCompleted(StDockerfile, NoErr) => files[dockerfileFile] = Rendered(dockerfileTemplate)

StartsOf(st) == {i \in 1..Len(run.started) : run.started[i] = st}
GenerationStages ==
    {StBindings, StHeader, StTree, StMain, StPaths, StGoMod, StMakefile, StDockerfile}

\* C14: the Dictionary is built at most once in a call and exactly once in a
\* call that got past lint; it is built after metadata loading and version
\* resolution have completed and before any binding, tree or template stage
\* starts; once built it equals, field for field, what Metadata, ModelInfo and
\* PluginVersion give, whatever the compiler held before, and it stays so
\* until Compile returns.
C14_DictionaryOnce ==
    /\ Cardinality(StartsOf(StDict)) <= 1
    /\ \A k \in StartsOf(StDict) :
          /\ \E i \in 1..(k - 1) : run.started[i] = StLoad /\ run.completed[i] = <<StLoad, NoErr>>
          /\ \E i \in 1..(k - 1) : run.started[i] = StVersion /\ StageOf(i) = StVersion
          /\ c.metaData # Nil
          /\ c.modelInfo # Nil
    /\ \A i \in 1..Len(run.started) :
          run.started[i] \in GenerationStages => \E k \in 1..(i - 1) : run.completed[k] = <<StDict, NoErr>>
    /\ (Returned /\ run.result \notin {ErrLoadMetaData, ErrLint}) => HasCompleted(StDict, NoErr)
    /\ HasCompleted(StDict, NoErr) =>
          /\ c.dictionary =
                [Name |-> Deref(c.modelInfo).Name,
                 Version |-> Deref(c.modelInfo).Version,
                 PluginVersion |-> c.pluginVersion,
                 GoPackage |-> Deref(c.metaData).GoPackage,
                 ModelData |-> Deref(c.modelInfo).ModelData,
                 Module |-> Deref(c.modelInfo).Module,
                 GetStateMode |-> Deref(c.modelInfo).GetStateMode,
                 ReadOnlyPath |-> Deref(c.modelInfo).ReadOnlyPath,
                 ReadWritePath |-> Deref(c.modelInfo).ReadWritePath]
          /\ c.dictionary = fresh.c.dictionary
    /\ ~HasCompleted(StDict, NoErr) => fresh.c.dictionary = ZeroDictionary

\* C14 witness: a second compile on the same compiler, of another manifest,
\* built its Dictionary and ran every later stage
C14_Witness ==
    /\ calls = 2
    /\ ManifestLoaded
    /\ Returned
    /\ run.result = NoErr
    /\ HasCompleted(StDict, NoErr)
    /\ dir.manifest = OtherManifest
    /\ c.dictionary.Name = "bar"

\* The (name, version, organization) triple of the manifest's i-th module
ModuleEntry(i) ==
    [Name |-> Manifest.Modules[i].Name,
     Version |-> Manifest.Modules[i].Revision,
     Organization |-> Manifest.Modules[i].Organization]

\* C15: once the manifest is loaded, ModelInfo.ModelData has one entry per
\* module descriptor and its i-th entry is the name, the revision (as
\* version) and the organization of the i-th descriptor; once the
\* Dictionary is built its ModelData is the same list.
C15_ModelDataInManifestOrder ==
    /\ ManifestLoaded =>
          LET data == Deref(c.modelInfo).ModelData
          IN  /\ Len(data) = Len(Manifest.Modules)
              /\ \A i \in 1..Len(data) : data[i] = ModuleEntry(i)
    /\ (ManifestLoaded /\ HasCompleted(StDict, NoErr)) =>
          /\ Len(c.dictionary.ModelData) = Len(Manifest.Modules)
          /\ \A i \in 1..Len(Manifest.Modules) : c.dictionary.ModelData[i] = ModuleEntry(i)

\* C15 witness: the Dictionary was built from a manifest that lists module b
\* before module a
C15_Witness ==
    /\ ManifestLoaded
    /\ HasCompleted(StDict, NoErr)
    /\ Len(Manifest.Modules) = 2
    /\ Manifest.Modules[1].Name = "b"
    /\ Manifest.Modules[2].Name = "a"
    /\ c.dictionary.ModelData[1].Version = "2021-02-02"

\* A stage has been started and has not returned: Compile is blocked in
\* cmd.Run() of that stage's tool
StageRunning == Len(run.started) > Len(run.completed)

\* C16: when every tool and file operation returns, Compile reaches a
\* terminal state; while a tool it started has not returned, Compile has no
\* result and the only step it takes is that tool's return, so no further
\* stage starts until then.
C16_Termination ==
    /\ <>Returned
    /\ [](StageRunning => ~Returned /\ run.result = "none")
    /\ [][StageRunning =>
            /\ run'.started = run.started
            /\ Len(run'.completed) = Len(run.completed) + 1
            /\ run'.completed[Len(run'.completed)][1] = run.started[Len(run.started)]]_vars

\* C16 witness: Compile has returned after it ran the linter, the generator
\* and the tree tool
C16_Witness ==
    /\ Returned
    /\ run.lintArgs # Nil
    /\ run.genArgs # Nil
    /\ run.treeArgs # Nil

\* What the header stage put in front of the generator's output, and the
\* number of newline-terminated lines in a text
Prepended ==
    LET new == Deref(files[apiFile])
    IN  SubSeq(new, 1, Len(new) - Len(dir.generated))
LineCount(text) == Cardinality({i \in 1..Len(text) : text[i] = LF})
MarkerText ==
    <<"/", "/", " ", "C", "o", "d", "e", " ", "g", "e", "n", "e", "r", "a", "t", "e", "d",
      " ", "b", "y", " ", "Y", "G", "O", "T", ".", " ", "D", "O", " ", "N", "O", "T",
      "E", "D", "I", "T", ".", LF>>

\* C17 as stated: the text the header stage prepends is the same for every
\* file and consists of exactly two newline-terminated lines.
C17_MarkerTwoLines ==
    HasCompleted(StHeader, NoErr) =>
        /\ Prepended = HeaderMarker
        /\ Prepended \o dir.generated = Deref(files[apiFile])
        /\ Prepended[Len(Prepended)] = LF
        /\ LineCount(Prepended) = 2

\* C17: the text the header stage prepends is the same for every file and
\* is one newline-terminated line, "// Code generated by YGOT. DO NOTEDIT.":
\* the two literals it is made of are joined with nothing between them.
C17_MarkerOneLine ==
    HasCompleted(StHeader, NoErr) =>
        /\ Prepended = MarkerText
        /\ Prepended \o dir.generated = Deref(files[apiFile])
        /\ Prepended[Len(Prepended)] = LF
        /\ LineCount(Prepended) = 1

\* C17 witness: the marker was prepended to a binding file that has lines of
\* its own
C17_Witness ==
    /\ HasCompleted(StHeader, NoErr)
    /\ LineCount(dir.generated) = MaxContentLen
    /\ LineCount(Deref(files[apiFile])) = MaxContentLen + 1

\* How many copies of the marker a text begins with
RECURSIVE MarkerCopies(_)
MarkerCopies(text) ==
    IF IsPrefix(HeaderMarker, text)
    THEN 1 + MarkerCopies(SubSeq(text, Len(HeaderMarker) + 1, Len(text)))
    ELSE 0

\* The header stage runs at most once in a call, and only after the binding
\* generator of the same call has exited zero
HeaderAfterGenerator ==
    /\ Cardinality(StartsOf(StHeader)) <= 1
    /\ \A k \in StartsOf(StHeader) :
          /\ k > 1
          /\ run.started[k - 1] = StBindings
          /\ run.completed[k - 1] = <<StBindings, NoErr>>

C19_EmptyModuleAndPaths ==
    /\ c.modelInfo # Nil =>
          /\ Deref(c.modelInfo).Module = ""
          /\ Deref(c.modelInfo).ReadOnlyPath = <<>>
          /\ Deref(c.modelInfo).ReadWritePath = <<>>
    /\ HasCompleted(StDict, NoErr) =>
          /\ c.dictionary.Module = ""
          /\ Len(c.dictionary.ReadOnlyPath) = 0
          /\ Len(c.dictionary.ReadWritePath) = 0

\* C19 witness: a Dictionary was built from a manifest with a name and two
\* modules, and its other fields are filled
C19_Witness ==
    /\ ManifestLoaded
    /\ HasCompleted(StDict, NoErr)
    /\ c.dictionary.Name = "foo"
    /\ Len(c.dictionary.ModelData) = MaxModules
    /\ c.dictionary.GoPackage = "pkg"

====
